---- MODULE Spec2Model ----
(***************************************************************************)
(* Model of scrobblarr's app.py: the config store (load_config and the     *)
(* watcher thread), the watched store (init_db and the INSERT OR IGNORE of *)
(* the webhook), the webhook handler and the Sonarr deletion workflow      *)
(* (delete_episode).                                                       *)
(*                                                                         *)
(* JSON values are encoded as follows.  A missing key / Python None is the *)
(* string "<None>" for string fields and Absent (-1) for integer fields.   *)
(* A JSON array or object found where a scalar is expected is "<List>".    *)
(***************************************************************************)
EXTENDS Integers, Sequences, FiniteSets, TLC

VARIABLES
    file,         \* config.json on disk: [content, mtime]
    CONFIG,       \* the global CONFIG (active snapshot)
    mainpc,       \* position of the __main__ block
    wpc,          \* position of the watcher thread
    w_mtime,      \* watcher local: mtime
    last_mtime,   \* watcher local: last_mtime
    db,           \* watched.db: [file, table, rows]
    pc,           \* position of the request being handled
    req,          \* the request being handled (or the last one handled)
    rows0,        \* rows of the watched table when that request arrived
    firsts,       \* rating_key -> row of the first qualifying event with it
    seen,         \* CONFIG snapshots that were active while it was handled
    override,     \* webhook local: override
    grace_days,   \* webhook local: grace_days
    sonarr,       \* delete_episode locals: matching_series, match, data
    invocations,  \* delete_episode calls made by that request
    calls,        \* remote calls issued by that request
    log,          \* log records written by that request
    response,     \* the response sent to that request
    handled,      \* number of requests answered
    processed,    \* rating_key -> number of qualifying events answered
    unbindable,   \* rating_key -> how many of them sqlite3 cannot bind
    writes,       \* number of modifications of config.json
    past          \* the earlier states of config.json

vars == <<file, CONFIG, mainpc, wpc, w_mtime, last_mtime, db, pc, req,
          rows0, firsts,
          seen, override, grace_days, sonarr, invocations, calls, log,
          response, handled, processed, unbindable, writes, past>>

config_vars  == <<file, CONFIG, wpc, w_mtime, last_mtime, writes, past>>
request_vars == <<pc, req, rows0, firsts, seen, override, grace_days, sonarr,
                  invocations, calls, log, response, handled, processed,
                  unbindable>>

----------------------------------------------------------------------------
(* Bounds *)

MaxRequests == 2     \* requests answered in one run
MaxWrites   == 1     \* modifications of config.json in one run
MaxMtime    == 2     \* modification times config.json can take
MaxEdits    == 2     \* modifications of config.json while no request comes

----------------------------------------------------------------------------
(* Values *)

Absent   == -1
None     == "<None>"
List     == "<List>"
Now      == 2000     \* int(time.time())

\* str.lower() on the titles of the model
Lower(s) ==
    CASE s = "Foo" -> "foo"
      [] s = "FOO" -> "foo"
      [] s = "Bar" -> "bar"
      [] OTHER     -> s

----------------------------------------------------------------------------
(* Config documents *)

\* one entry of series_settings: key -> {grace_days: g, ...}; extra tells
\* whether the entry has keys other than grace_days
SettingEntry(k, g, x) == [key |-> k, grace_days |-> g, extra |-> x]

ConfigDoc(s, u, g, ss) ==
    [kind |-> "doc", sonarr |-> s, unmonitor_after_delete |-> u,
     grace_days |-> g, series_settings |-> ss]

\* CONFIG = {}
EmptyConfig == ConfigDoc(FALSE, None, Absent, <<>>)

InvalidFile == [kind |-> "invalid"]
MissingFile == [kind |-> "missing"]

----------------------------------------------------------------------------
(* Config store *)

\* a load_config that updates the active config in place, caught by a
\* reader when series_settings is not replaced yet
load_config_in_place(cur, f) ==
    IF f.content.kind = "doc"
      THEN [f.content EXCEPT !.series_settings = cur.series_settings]
      ELSE cur

\* a load_config that falls back to the empty config when the load fails
load_config_reset(cur, f) ==
    IF f.content.kind = "doc" THEN f.content ELSE EmptyConfig

\* load_config: the value of CONFIG after the call, given the file
load_config(cur, f) ==
    IF f.content.kind = "doc" THEN f.content ELSE cur

\* CONFIG is rebound to c; a request in flight has now seen c as well
SetConfig(c) ==
    /\ CONFIG' = c
    /\ seen' = IF pc = "idle" THEN seen ELSE seen \cup {c}

\* __main__: load_config()
main_load_config ==
    /\ mainpc = "load_config"
    /\ SetConfig(load_config(CONFIG, file))
    /\ mainpc' = "start_config_watcher"
    /\ UNCHANGED <<file, wpc, w_mtime, last_mtime, writes, past, db, pc,
                   req, rows0, firsts,
                   override, grace_days, sonarr, invocations, calls, log,
                   response, handled, processed, unbindable>>

\* __main__: start_config_watcher()
main_start_config_watcher ==
    /\ mainpc = "start_config_watcher"
    /\ wpc' = "getmtime"
    /\ mainpc' = "init_db"
    /\ UNCHANGED <<file, CONFIG, w_mtime, last_mtime, writes, past, db>>
    /\ UNCHANGED request_vars

\* watcher: mtime = os.path.getmtime(CONFIG_PATH); if mtime != last_mtime
watcher_getmtime ==
    /\ wpc = "getmtime"
    /\ IF file.content.kind = "missing"
         THEN UNCHANGED <<wpc, w_mtime>>            \* except Exception: pass
         ELSE IF file.mtime # last_mtime
                THEN wpc' = "load_config" /\ w_mtime' = file.mtime
                ELSE UNCHANGED <<wpc, w_mtime>>
    /\ UNCHANGED <<file, CONFIG, last_mtime, writes, past, db, mainpc>>
    /\ UNCHANGED request_vars

\* a watcher that records the modification time without reloading
watcher_records_only ==
    /\ wpc = "load_config"
    /\ last_mtime' = w_mtime
    /\ wpc' = "getmtime"
    /\ UNCHANGED <<file, CONFIG, w_mtime, writes, past, db, mainpc>>
    /\ UNCHANGED request_vars

\* watcher: load_config(); last_mtime = mtime
watcher_load_config ==
    /\ wpc = "load_config"
    /\ SetConfig(load_config(CONFIG, file))
    /\ last_mtime' = w_mtime
    /\ wpc' = "getmtime"
    /\ UNCHANGED <<file, w_mtime, writes, past, db, mainpc, pc,
                   req, rows0, firsts,
                   override, grace_days, sonarr, invocations, calls, log,
                   response, handled, processed, unbindable>>

\* the operator edits, replaces or removes config.json
file_write(contents, limit) ==
    /\ writes < limit
    /\ \E c \in contents, m \in 1..MaxMtime :
         /\ c # file.content
         /\ m # file.mtime
         /\ file' = [content |-> c, mtime |-> IF c.kind = "missing" THEN 0 ELSE m]
    /\ writes' = writes + 1
    /\ past' = past \cup {file}
    /\ UNCHANGED <<CONFIG, wpc, w_mtime, last_mtime, db, mainpc>>
    /\ UNCHANGED request_vars

----------------------------------------------------------------------------
(* Watched store *)

WatchedRow(k, s, se, ep, w) ==
    [rating_key |-> k, series |-> s, season |-> se, episode |-> ep,
     watched_at |-> w]

\* init_db: the database after the call
init_db(d) ==
    LET should_create == d.file \in {"absent", "empty"} IN
    IF should_create
      THEN [file |-> "content", table |-> TRUE, rows |-> <<>>]
      ELSE d

\* __main__: init_db(); app.run(...)
main_init_db ==
    /\ mainpc = "init_db"
    /\ db' = init_db(db)
    /\ mainpc' = "serve"
    /\ UNCHANGED config_vars
    /\ UNCHANGED request_vars

\* INSERT OR REPLACE: the row stored under the rating_key gives way
InsertOrReplace(rows, r) ==
    LET Others(x) == r.rating_key = None \/ x.rating_key # r.rating_key
    IN  Append(SelectSeq(rows, Others), r)

\* a plain INSERT into a table without the UNIQUE constraint
InsertAlways(rows, r) == Append(rows, r)

\* INSERT OR IGNORE under rating_key TEXT UNIQUE (NULLs never conflict)
InsertOrIgnore(rows, r) ==
    IF r.rating_key # None
       /\ \E i \in DOMAIN rows : rows[i].rating_key = r.rating_key
      THEN rows
      ELSE Append(rows, r)

----------------------------------------------------------------------------
(* Webhook handler *)

RatingKeys == {"abc", "", None}

\* one POST /webhook: the content type, what the body (or the payload form
\* field) holds, and the fields of the JSON object when it is one
Payload(ct, raw, ev, md, lst, gt, pi, ix, rk, lv) ==
    [ctype |-> ct, raw |-> raw, event |-> ev, md |-> md,
     librarySectionType |-> lst, grandparentTitle |-> gt, parentIndex |-> pi,
     index |-> ix, ratingKey |-> rk, lastViewedAt |-> lv]

NoRequest ==
    Payload("other", "absent", None, "missing", None, None, Absent, Absent,
            None, Absent)

\* json.loads(request.form.get("payload", "{}")) / request.get_json(force=True)
Parsed(p) ==
    CASE p.raw = "garbage"   -> "raise"
      [] p.raw = "absent"    -> IF p.ctype = "multipart" THEN "falsy" ELSE "raise"
      [] p.raw = "falsy"     -> "falsy"
      [] p.raw = "nonobject" -> "nonobject"
      [] OTHER               -> "object"

\* the request passes both filters of the handler
Qualifies(p) ==
    /\ Parsed(p) = "object"
    /\ p.event = "media.scrobble"
    /\ p.md = "dict"
    /\ p.librarySectionType = "show"

\* md.get("lastViewedAt", int(time.time()))
WatchedAt(p) == IF p.lastViewedAt = Absent THEN Now ELSE p.lastViewedAt

\* sqlite3 binds str, int and None; it raises on a list or a dict
Bindable(p) == p.grandparentTitle # List

\* a plain INSERT: the UNIQUE constraint raises on a stored rating_key
InsertRaisesOnDuplicate(d, p) ==
    \/ ~d.table
    \/ ~Bindable(p)
    \/ /\ p.ratingKey # None
       /\ \E i \in DOMAIN d.rows : d.rows[i].rating_key = p.ratingKey

\* an INSERT whose failure is swallowed: the handler goes on
InsertNeverRaises(d, p) == FALSE

\* the INSERT OR IGNORE statement raises: no such table, or a parameter of
\* an unsupported type
InsertRaises(d, p) == ~d.table \/ ~Bindable(p)

NoOverride == SettingEntry(None, Absent, FALSE)

\* a lookup that falls back to the first key equal up to case
GetOverrideAnyCase(ss, series) ==
    IF \E i \in DOMAIN ss : ss[i].key = series
      THEN ss[CHOOSE i \in DOMAIN ss : ss[i].key = series]
      ELSE IF \E i \in DOMAIN ss : Lower(ss[i].key) = Lower(series)
        THEN ss[CHOOSE i \in DOMAIN ss :
                  /\ Lower(ss[i].key) = Lower(series)
                  /\ \A j \in DOMAIN ss :
                        Lower(ss[j].key) = Lower(series) => i <= j]
        ELSE NoOverride

\* CONFIG.get("series_settings", {}).get(series)
GetOverride(ss, series) ==
    IF \E i \in DOMAIN ss : ss[i].key = series
      THEN ss[CHOOSE i \in DOMAIN ss : ss[i].key = series]
      ELSE NoOverride

\* truth value of the looked-up entry: None and {} are false
Truthy(o) == o.key # None /\ (o.grace_days # Absent \/ o.extra)

DefaultGraceDays == 2

\* CONFIG.get("grace_days", 0): a missing global grace_days read as 0
EffectiveGraceDaysDefaultZero(o, cfg) ==
    IF Truthy(o)
      THEN o.grace_days
      ELSE IF cfg.grace_days = Absent THEN 0 ELSE cfg.grace_days

\* override.get("grace_days") if override else CONFIG.get("grace_days", 2)
EffectiveGraceDays(o, cfg) ==
    IF Truthy(o)
      THEN o.grace_days
      ELSE IF cfg.grace_days = Absent THEN DefaultGraceDays ELSE cfg.grace_days

NoResponse == <<0, "">>

\* one entry of GET /api/v3/series and of GET /api/v3/episode
RemoteSeries(t, i) == [title |-> t, id |-> i]
RemoteEpisode(i, sn, en, hf, fid, m) ==
    [id |-> i, seasonNumber |-> sn, episodeNumber |-> en, hasFile |-> hf,
     episodeFileId |-> fid, monitored |-> m]

NoSeries  == RemoteSeries(None, Absent)
NoEpisode == RemoteEpisode(Absent, Absent, Absent, FALSE, Absent, FALSE)

\* locals of delete_episode before its first assignment
NoSonarr ==
    [series_data |-> <<>>, matching_series |-> NoSeries,
     episode_data |-> <<>>, match |-> NoEpisode]

\* return "", 200
Respond(p, l) ==
    /\ log' = l
    /\ response' = <<200, "">>
    /\ pc' = "idle"
    /\ handled' = handled + 1
    /\ processed' = IF Qualifies(p)
                      THEN [processed EXCEPT ![p.ratingKey] = @ + 1]
                      ELSE processed
    /\ unbindable' = IF Qualifies(p) /\ p.grandparentTitle = List
                       THEN [unbindable EXCEPT ![p.ratingKey] = @ + 1]
                       ELSE unbindable

\* the handler without its try/except: the framework answers 500
webhook_except_uncaught(p, l, e) ==
    /\ log' = l
    /\ response' = <<500, "Internal Server Error">>
    /\ pc' = "idle"
    /\ handled' = handled + 1
    /\ UNCHANGED <<processed, unbindable>>

\* except Exception as e: logging.error(...); then return "", 200
webhook_except(p, l, e) == Respond(p, Append(l, <<"ERROR", "Webhook", e>>))

\* an empty payload turned away as a bad request
webhook_no_payload_400(p) ==
    /\ log' = <<<<"WARNING", "Webhook", "No payload received">>>>
    /\ response' = <<400, "">>
    /\ pc' = "idle"
    /\ handled' = handled + 1
    /\ UNCHANGED <<processed, unbindable>>

\* if not payload: logging.warning(...); return "", 200
webhook_no_payload(p) ==
    Respond(p, <<<<"WARNING", "Webhook", "No payload received">>>>)

\* if event_type != "media.scrobble"
OtherEvent(p) == p.event # "media.scrobble"

\* the handler without its library-section filter
NonShowNever(p) == FALSE

\* if md.get("librarySectionType") != "show"
NonShow(p) == p.md = "missing" \/ p.librarySectionType # "show"

\* the row a qualifying event asks to store
RowOf(p) ==
    WatchedRow(p.ratingKey, p.grandparentTitle, p.parentIndex, p.index,
               WatchedAt(p))

NoRow == WatchedRow(None, None, Absent, Absent, Absent)

\* the rows already in watched.db when the program starts are the first of
\* their rating_key
FirstStored(rows) ==
    [k \in RatingKeys |->
        IF \E i \in DOMAIN rows : rows[i].rating_key = k
          THEN LET r == rows[CHOOSE i \in DOMAIN rows : rows[i].rating_key = k]
               IN  [any |-> r, bound |-> r]
          ELSE [any |-> NoRow, bound |-> NoRow]]

\* the first qualifying event of each rating_key, and the first one whose
\* fields sqlite3 can bind
FirstSeen(f, p) ==
    IF ~Qualifies(p) THEN f
    ELSE [f EXCEPT ![p.ratingKey] =
            [any   |-> IF @.any = NoRow THEN RowOf(p) ELSE @.any,
             bound |-> IF @.bound = NoRow /\ Bindable(p)
                         THEN RowOf(p) ELSE @.bound]]

\* lines 140-168: parse, filter, extract
webhook_receive(payloads) ==
    /\ mainpc = "serve"
    /\ pc = "idle"
    /\ handled < MaxRequests
    /\ \E p \in payloads :
         /\ req' = p
         /\ rows0' = db.rows
         /\ firsts' = FirstSeen(firsts, p)
         /\ seen' = {CONFIG}
         /\ override' = NoOverride
         /\ grace_days' = Absent
         /\ invocations' = <<>>
         /\ calls' = <<>>
         /\ CASE Parsed(p) = "raise"     -> webhook_except(p, <<>>, "BadRequest")
              [] Parsed(p) = "falsy"     -> webhook_no_payload(p)
              [] Parsed(p) = "nonobject" -> webhook_except(p, <<>>, "AttributeError")
              [] OTHER ->
                   LET l1 == <<<<"INFO", "Webhook", "Event received">>>> IN
                   IF OtherEvent(p)
                     THEN Respond(p, l1)
                   ELSE IF p.md = "notdict"
                     THEN webhook_except(p, l1, "AttributeError")
                   ELSE IF NonShow(p)
                     THEN Respond(p, Append(l1,
                            <<"INFO", "Webhook", "Ignored non-show media item">>))
                   ELSE /\ log' = Append(l1, <<"INFO", "Webhook", "Scrobbled">>)
                        /\ pc' = "insert"
                        /\ response' = NoResponse
                        /\ UNCHANGED <<handled, processed, unbindable>>
    /\ sonarr' = NoSonarr
    /\ UNCHANGED <<db, mainpc>>
    /\ UNCHANGED config_vars

\* lines 170-177: connect, INSERT OR IGNORE, commit, close
webhook_insert ==
    /\ pc = "insert"
    /\ IF InsertRaises(db, req)
         THEN /\ webhook_except(req, log, "sqlite3.Error")
              /\ db' = db
         ELSE /\ db' = [db EXCEPT !.rows =
                          InsertOrIgnore(@, WatchedRow(req.ratingKey,
                              req.grandparentTitle, req.parentIndex,
                              req.index, WatchedAt(req)))]
              /\ pc' = "override"
              /\ UNCHANGED <<log, response, handled, processed, unbindable>>
    /\ UNCHANGED <<req, rows0, firsts, seen, override, grace_days, sonarr,
                   invocations, calls, mainpc>>
    /\ UNCHANGED config_vars

\* lines 179-183: the override lookup
webhook_override ==
    /\ pc = "override"
    /\ override' = GetOverride(CONFIG.series_settings, req.grandparentTitle)
    /\ log' = Append(log, IF Truthy(override')
                             THEN <<"INFO", "Config", "Override found">>
                             ELSE <<"INFO", "Config", "No override found">>)
    /\ pc' = "grace"
    /\ UNCHANGED <<req, rows0, firsts, seen, grace_days, sonarr, invocations, calls,
                   response, handled, processed, unbindable, db, mainpc>>
    /\ UNCHANGED config_vars

\* lines 185-188: the effective grace_days and the decision
webhook_grace ==
    /\ pc = "grace"
    /\ grace_days' = EffectiveGraceDays(override, CONFIG)
    /\ IF grace_days' = 0
         THEN /\ invocations' = Append(invocations,
                    <<req.grandparentTitle, req.parentIndex, req.index>>)
              /\ pc' = "delete_episode"
              /\ UNCHANGED <<log, response, handled, processed, unbindable>>
         ELSE /\ Respond(req, log)
              /\ UNCHANGED invocations
    /\ UNCHANGED <<req, rows0, firsts, seen, override, sonarr, calls, db, mainpc>>
    /\ UNCHANGED config_vars

----------------------------------------------------------------------------
(* Library-manager client: delete_episode *)

Outcomes == {"ok", "http_error", "network_error"}

\* one remote call: method, resource, id in the URL, how it ended, and the
\* monitored flag of the JSON body (PUT only)
Call(m, r, i, st, mon) ==
    [method |-> m, resource |-> r, id |-> i, status |-> st, monitored |-> mon]

\* delete_episode without its try/except: the exception reaches webhook
delete_raises(l, e) == webhook_except(req, l, e)

\* except Exception as e: logging.error(...); control returns to webhook,
\* which returns "", 200
delete_except(l, e) == Respond(req, Append(l, <<"ERROR", "Sonarr", e>>))

\* the scan without its title comparison: the first series is taken
SeriesScanFirst(data, series) ==
    IF data = <<>> THEN [result |-> "none", index |-> 0]
    ELSE [result |-> "found", index |-> 1]

\* next((s for s in series_data if s["title"].lower() == series.lower()), None)
SeriesScan(data, series) ==
    LET Raises(i)  == data[i].title = None \/ series = None
        Matches(i) == Lower(data[i].title) = Lower(series)
        Stops      == {i \in DOMAIN data : Raises(i) \/ Matches(i)}
        first      == CHOOSE i \in Stops : \A j \in Stops : i <= j
    IN  IF Stops = {} THEN [result |-> "none", index |-> 0]
        ELSE IF Raises(first) THEN [result |-> "raise", index |-> first]
        ELSE [result |-> "found", index |-> first]

\* the scan that keeps the last episode with the numbers, not the first
EpisodeScanLast(data, season, episode) ==
    LET Raises(i)  == \/ data[i].seasonNumber = Absent
                      \/ /\ data[i].seasonNumber = season
                         /\ data[i].episodeNumber = Absent
        Matches(i) == /\ data[i].seasonNumber = season
                      /\ data[i].episodeNumber = episode
        Stops      == {i \in DOMAIN data : Raises(i) \/ Matches(i)}
        last       == CHOOSE i \in Stops : \A j \in Stops : i >= j
    IN  IF Stops = {} THEN [result |-> "none", index |-> 0]
        ELSE IF Raises(last) THEN [result |-> "raise", index |-> last]
        ELSE [result |-> "found", index |-> last]

\* next((ep for ep in episode_data if ep["seasonNumber"] == season
\*       and ep["episodeNumber"] == episode), None)
EpisodeScan(data, season, episode) ==
    LET Raises(i)  == \/ data[i].seasonNumber = Absent
                      \/ /\ data[i].seasonNumber = season
                         /\ data[i].episodeNumber = Absent
        Matches(i) == /\ data[i].seasonNumber = season
                      /\ data[i].episodeNumber = episode
        Stops      == {i \in DOMAIN data : Raises(i) \/ Matches(i)}
        first      == CHOOSE i \in Stops : \A j \in Stops : i <= j
    IN  IF Stops = {} THEN [result |-> "none", index |-> 0]
        ELSE IF Raises(first) THEN [result |-> "raise", index |-> first]
        ELSE [result |-> "found", index |-> first]

\* lines 105-107: CONFIG["sonarr"]["api_key"], CONFIG["sonarr"]["url"]
delete_episode_config ==
    /\ pc = "delete_episode"
    /\ IF ~CONFIG.sonarr
         THEN delete_except(log, "KeyError")
         ELSE /\ pc' = "get_series"
              /\ UNCHANGED <<log, response, handled, processed, unbindable>>
    /\ UNCHANGED <<req, rows0, firsts, seen, override, grace_days, sonarr,
                   invocations, calls, db, mainpc>>
    /\ UNCHANGED config_vars

\* lines 109-115: GET /api/v3/series and the title match
delete_episode_get_series(lists) ==
    /\ pc = "get_series"
    /\ \E st \in Outcomes :
         /\ calls' = Append(calls, Call("GET", "series", Absent, st, None))
         /\ IF st # "ok"
              THEN /\ delete_except(log, st)
                   /\ UNCHANGED sonarr
              ELSE \E data \in lists :
                     LET r == SeriesScan(data, req.grandparentTitle) IN
                     /\ sonarr' = [sonarr EXCEPT
                                     !.series_data = data,
                                     !.matching_series =
                                        IF r.result = "found"
                                          THEN data[r.index] ELSE NoSeries]
                     /\ CASE r.result = "raise" -> delete_except(log, "KeyError")
                          [] r.result = "none" ->
                               Respond(req, Append(log,
                                 <<"WARNING", "Sonarr", "Series not found">>))
                          [] OTHER ->
                               /\ pc' = "get_episodes"
                               /\ UNCHANGED <<log, response, handled, processed,
                                              unbindable>>
    /\ UNCHANGED <<req, rows0, firsts, seen, override, grace_days, invocations, db,
                   mainpc>>
    /\ UNCHANGED config_vars

\* lines 117-123: GET /api/v3/episode?seriesId=... and the episode match
delete_episode_get_episodes(lists) ==
    /\ pc = "get_episodes"
    /\ IF sonarr.matching_series.id = Absent
         THEN /\ delete_except(log, "KeyError")  \* KeyError: 'id'
              /\ UNCHANGED <<calls, sonarr>>
         ELSE \E st \in Outcomes :
           /\ calls' = Append(calls, Call("GET", "episode",
                                          sonarr.matching_series.id, st, None))
           /\ IF st # "ok"
                THEN /\ delete_except(log, st)
                     /\ UNCHANGED sonarr
                ELSE \E data \in lists :
                       LET r == EpisodeScan(data, req.parentIndex, req.index) IN
                       /\ sonarr' = [sonarr EXCEPT
                                       !.episode_data = data,
                                       !.match = IF r.result = "found"
                                                   THEN data[r.index]
                                                   ELSE NoEpisode]
                       /\ CASE r.result = "raise" -> delete_except(log, "KeyError")
                            [] r.result = "none" ->
                                 Respond(req, Append(log,
                                   <<"WARNING", "Sonarr", "Episode not found">>))
                            [] OTHER ->
                                 /\ pc' = "delete_file"
                                 /\ UNCHANGED <<log, response, handled, processed,
                                              unbindable>>
    /\ UNCHANGED <<req, rows0, firsts, seen, override, grace_days, invocations, db,
                   mainpc>>
    /\ UNCHANGED config_vars

\* lines 125-129: DELETE /api/v3/episodefile/{episodeFileId}
delete_episode_delete_file ==
    /\ pc = "delete_file"
    /\ IF sonarr.match.hasFile
         THEN IF sonarr.match.episodeFileId = Absent
                THEN /\ delete_except(log, "KeyError")
                     /\ UNCHANGED calls
                ELSE \E st \in Outcomes :
                       /\ calls' = Append(calls, Call("DELETE", "episodefile",
                                            sonarr.match.episodeFileId, st, None))
                       /\ IF st = "network_error"
                            THEN delete_except(log, st)
                            ELSE /\ log' = Append(log, <<"INFO", "Sonarr", "Deleted">>)
                                 /\ pc' = "unmonitor"
                                 /\ UNCHANGED <<response, handled, processed,
                                                unbindable>>
         ELSE /\ log' = Append(log, <<"INFO", "Sonarr", "No file to delete">>)
              /\ pc' = "unmonitor"
              /\ UNCHANGED <<calls, response, handled, processed, unbindable>>
    /\ UNCHANGED <<req, rows0, firsts, seen, override, grace_days, sonarr,
                   invocations, db, mainpc>>
    /\ UNCHANGED config_vars

\* the flag with False as its default
UnmonitorIfSet(cfg) == cfg.unmonitor_after_delete = "true"

\* line 131: CONFIG.get("unmonitor_after_delete", True)
UnmonitorAfterDelete(cfg) == cfg.unmonitor_after_delete \in {None, "true"}

\* lines 131-134: PUT /api/v3/episode/{id} with monitored = False
delete_episode_unmonitor ==
    /\ pc = "unmonitor"
    /\ IF UnmonitorAfterDelete(CONFIG)
         THEN /\ sonarr' = [sonarr EXCEPT !.match.monitored = FALSE]
              /\ IF sonarr.match.id = Absent
                   THEN /\ delete_except(log, "KeyError")  \* KeyError: 'id'
                        /\ UNCHANGED calls
                   ELSE \E st \in Outcomes :
                     /\ calls' = Append(calls, Call("PUT", "episode",
                                          sonarr.match.id, st, "false"))
                     /\ IF st = "network_error"
                          THEN delete_except(log, st)
                          ELSE Respond(req, Append(log,
                                         <<"INFO", "Sonarr", "Unmonitored">>))
         ELSE /\ Respond(req, log)
              /\ UNCHANGED <<calls, sonarr>>
    /\ UNCHANGED <<req, rows0, firsts, seen, override, grace_days, invocations, db,
                   mainpc>>
    /\ UNCHANGED config_vars

----------------------------------------------------------------------------
(* Input domains *)

\* the entries a series_settings key can map to: {"grace_days": 0},
\* {"grace_days": 2}, {} and an entry with other keys only
Entries(keys) ==
    {SettingEntry(k, g, FALSE) : k \in keys, g \in {Absent, 0, 2}}
      \cup {SettingEntry(k, Absent, TRUE) : k \in keys}

\* series_settings mappings with at most two keys, in insertion order
SeriesSettings(keys) ==
    {<<>>} \cup {<<e>> : e \in Entries(keys)}
           \cup {p \in {<<e, f>> : e \in Entries(keys), f \in Entries(keys)} :
                    p[1].key # p[2].key}

\* documents that differ in the policy part
PolicyDocs ==
    {ConfigDoc(TRUE, None, g, ss) :
        g \in {Absent, 0, 2}, ss \in SeriesSettings({"Foo", "foo"})}

\* documents that differ in the part delete_episode reads
ClientDocs ==
    {ConfigDoc(s, u, 0, <<>>) : s \in BOOLEAN, u \in {None, "true", "false"}}

\* a few documents of both kinds
SmallDocs ==
    {ConfigDoc(TRUE, None, 0, <<>>),
     ConfigDoc(TRUE, None, 2, <<>>),
     ConfigDoc(TRUE, None, 0, <<SettingEntry("Foo", 2, FALSE)>>)}

FileContents(docs) == docs \cup {InvalidFile, MissingFile}

\* requests that do not carry a JSON object
BarePayloads ==
    {Payload(ct, raw, None, "missing", None, None, Absent, Absent, None, Absent) :
        ct \in {"multipart", "other"},
        raw \in {"absent", "garbage", "falsy", "nonobject"}}

\* JSON objects the filters turn away
IgnoredPayloads ==
    {Payload("other", "object", ev, "missing", None, None, Absent, Absent,
             None, Absent) : ev \in {"media.scrobble", "media.play", None}}
    \cup
    {p \in {Payload("other", "object", ev, md, lst, "Foo", 1, 2, "abc", 1000) :
                ev \in {"media.scrobble", "media.play"},
                md \in {"dict", "notdict"},
                lst \in {"show", "movie", None}} : ~Qualifies(p)}

\* scrobbles of show episodes
Scrobbles(titles, indexes, keys, times) ==
    {Payload(ct, "object", "media.scrobble", "dict", "show", gt, 1, ix, rk, lv) :
        ct \in {"multipart", "other"}, gt \in titles, ix \in indexes,
        rk \in keys, lv \in times}

StorePayloads ==
    BarePayloads \cup IgnoredPayloads
      \cup Scrobbles({"Foo", List}, {2, 3}, RatingKeys, {1000, Absent})

PolicyPayloads ==
    Scrobbles({"Foo", "foo", None, List}, {2, 3}, {"abc"}, {1000})

DeletePayloads ==
    Scrobbles({"Foo", None}, {2, 3, Absent}, {"abc"}, {1000})

SmallPayloads ==
    {Payload("other", "garbage", None, "missing", None, None, Absent, Absent,
             None, Absent)}
      \cup Scrobbles({"Foo"}, {2}, {"abc", None}, {1000})

\* answers of GET /api/v3/series
SeriesEntries ==
    {RemoteSeries("FOO", 1), RemoteSeries("Foo", 2), RemoteSeries("Bar", 3),
     RemoteSeries(None, 4), RemoteSeries("Foo", Absent)}

SeriesLists ==
    {<<>>} \cup {<<a>> : a \in SeriesEntries}
           \cup {<<a, b>> : a \in SeriesEntries, b \in SeriesEntries}

SmallSeriesLists == {<<>>, <<RemoteSeries("Foo", 2)>>}

\* answers of GET /api/v3/episode?seriesId=...
EpisodeEntries ==
    {RemoteEpisode(10, 1, 2, TRUE, 110, TRUE),
     RemoteEpisode(11, 1, 2, FALSE, Absent, TRUE),
     RemoteEpisode(12, 1, 3, TRUE, 112, FALSE),
     RemoteEpisode(13, 2, 2, TRUE, 113, TRUE),
     RemoteEpisode(14, 1, 2, TRUE, Absent, TRUE),
     RemoteEpisode(15, Absent, 2, TRUE, 115, TRUE),
     RemoteEpisode(Absent, 1, 2, FALSE, Absent, TRUE)}

EpisodeLists ==
    {<<>>} \cup {<<a>> : a \in EpisodeEntries}
           \cup {<<a, b>> : a \in EpisodeEntries, b \in EpisodeEntries}

SmallEpisodeLists ==
    {<<>>, <<RemoteEpisode(10, 1, 2, TRUE, 110, TRUE)>>}

\* what watched.db holds before the program starts
StoredRow == WatchedRow("abc", "Foo", 1, 2, 1000)

Databases ==
    {[file |-> "absent",  table |-> FALSE, rows |-> <<>>],
     [file |-> "empty",   table |-> FALSE, rows |-> <<>>],
     [file |-> "content", table |-> FALSE, rows |-> <<>>],
     [file |-> "content", table |-> TRUE,  rows |-> <<>>],
     [file |-> "content", table |-> TRUE,  rows |-> <<StoredRow>>]}

----------------------------------------------------------------------------
(* Specifications *)

InitWith(contents, dbs) ==
    /\ \E c \in contents :
         file = [content |-> c, mtime |-> IF c.kind = "missing" THEN 0 ELSE 1]
    /\ CONFIG = EmptyConfig
    /\ mainpc = "load_config"
    /\ wpc = "not_started"
    /\ w_mtime = 0
    /\ last_mtime = 0
    /\ db \in dbs
    /\ pc = "idle"
    /\ req = NoRequest
    /\ rows0 = <<>>
    /\ firsts = FirstStored(db.rows)
    /\ seen = {}
    /\ override = NoOverride
    /\ grace_days = Absent
    /\ sonarr = NoSonarr
    /\ invocations = <<>>
    /\ calls = <<>>
    /\ log = <<>>
    /\ response = NoResponse
    /\ handled = 0
    /\ processed = [k \in RatingKeys |-> 0]
    /\ unbindable = [k \in RatingKeys |-> 0]
    /\ writes = 0
    /\ past = {}

\* the program with config.json left alone
Serve(payloads, slists, elists) ==
    \/ main_load_config
    \/ main_start_config_watcher
    \/ main_init_db
    \/ watcher_getmtime
    \/ watcher_load_config
    \/ webhook_receive(payloads)
    \/ webhook_insert
    \/ webhook_override
    \/ webhook_grace
    \/ delete_episode_config
    \/ delete_episode_get_series(slists)
    \/ delete_episode_get_episodes(elists)
    \/ delete_episode_delete_file
    \/ delete_episode_unmonitor

InitStore == InitWith(FileContents(SmallDocs), Databases)
NextStore == Serve(StorePayloads, SmallSeriesLists, SmallEpisodeLists)
SpecStore == InitStore /\ [][NextStore]_vars

InitPolicy == InitWith(FileContents(PolicyDocs), Databases)
NextPolicy == Serve(PolicyPayloads, SmallSeriesLists, SmallEpisodeLists)
SpecPolicy == InitPolicy /\ [][NextPolicy]_vars

InitDelete == InitWith(FileContents(ClientDocs), Databases)
NextDelete == Serve(DeletePayloads, SeriesLists, EpisodeLists)
SpecDelete == InitDelete /\ [][NextDelete]_vars

Init == InitWith(FileContents(SmallDocs), Databases)
Next ==
    \/ Serve(SmallPayloads, SmallSeriesLists, SmallEpisodeLists)
    \/ file_write(FileContents(SmallDocs), MaxWrites)
Spec == Init /\ [][Next]_vars

\* the startup and the watcher thread while config.json is edited and no
\* request comes; the main thread and the watcher's loop (while True, sleep
\* 5) keep running
InitReload == InitWith(FileContents(SmallDocs), Databases)
NextReload ==
    \/ main_load_config
    \/ main_start_config_watcher
    \/ main_init_db
    \/ watcher_getmtime
    \/ watcher_load_config
    \/ file_write(FileContents(SmallDocs), MaxEdits)
SpecReload ==
    /\ InitReload
    /\ [][NextReload]_vars
    /\ WF_vars(main_load_config)
    /\ WF_vars(main_start_config_watcher)
    /\ WF_vars(main_init_db)
    /\ WF_vars(watcher_getmtime)
    /\ WF_vars(watcher_load_config)

TypeOK ==
    /\ pc \in {"idle", "insert", "override", "grace", "delete_episode",
               "get_series", "get_episodes", "delete_file", "unmonitor"}
    /\ handled \in 0..MaxRequests
    /\ writes \in 0..(MaxWrites + MaxEdits)

----------------------------------------------------------------------------
(* Properties *)

Range(q) == {q[i] : i \in DOMAIN q}

\* the last request has been answered
Answered == pc = "idle" /\ handled > 0

\* the last request is a scrobble of a show episode
IsScrobbleOfShow ==
    /\ req.raw = "object"
    /\ req.event = "media.scrobble"
    /\ req.md = "dict"
    /\ req.librarySectionType = "show"

\* the row the last request carries
RowOfRequest ==
    [rating_key |-> req.ratingKey, series |-> req.grandparentTitle,
     season |-> req.parentIndex, episode |-> req.index,
     watched_at |-> IF req.lastViewedAt = Absent THEN Now ELSE req.lastViewedAt]

WebhookErrors == {e \in Range(log) : e[1] = "ERROR" /\ e[2] = "Webhook"}
SonarrErrors  == {e \in Range(log) : e[1] = "ERROR" /\ e[2] = "Sonarr"}

\* the INSERT of the last request raised
InsertRaised == <<"ERROR", "Webhook", "sqlite3.Error">> \in Range(log)

\* the watched table exists and sqlite3 can bind the fields of the last
\* request
StoreAccepts == db.table /\ req.grandparentTitle # List

RowsWithKey(k) == {i \in DOMAIN db.rows : db.rows[i].rating_key = k}

\* C1: every answered request got (200, empty body), whichever path the
\* handler took, exceptions included; nothing else is ever sent.
C1_AlwaysOk ==
    /\ response \in {NoResponse, <<200, "">>}
    /\ Answered => response = <<200, "">>

\* a request whose INSERT raised has been answered 200
C1_Witness ==
    /\ Answered
    /\ InsertRaised
    /\ response = <<200, "">>

\* C2 as stated: once two or more qualifying events with the same present
\* rating_key have been processed, the store holds exactly one row with that
\* key and the latest of them raised no error in the handler.
C2_Original ==
    \A k \in RatingKeys \ {None} :
        (pc = "idle" /\ processed[k] >= 2) =>
            /\ Cardinality(RowsWithKey(k)) = 1
            /\ (IsScrobbleOfShow /\ req.ratingKey = k) => WebhookErrors = {}

\* C2 amended: the same, for a store whose watched table exists and events
\* whose fields sqlite3 can bind.
C2_Idempotent ==
    \A k \in RatingKeys \ {None} :
        (pc = "idle" /\ db.table /\ processed[k] >= 2 /\ unbindable[k] = 0) =>
            /\ Cardinality(RowsWithKey(k)) = 1
            /\ (IsScrobbleOfShow /\ req.ratingKey = k) => WebhookErrors = {}

\* a second event with key "abc" and other fields was processed, and the
\* store still holds the first row only
C2_Witness ==
    /\ pc = "idle"
    /\ processed["abc"] = 2
    /\ unbindable["abc"] = 0
    /\ IsScrobbleOfShow /\ req.ratingKey = "abc"
    /\ db.rows = rows0
    /\ Cardinality(RowsWithKey("abc")) = 1
    /\ \E i \in RowsWithKey("abc") : db.rows[i] # RowOfRequest
    /\ WebhookErrors = {}

\* C3 as stated: no two rows of the watched store carry the same rating_key,
\* the absent (NULL) and the empty rating_key included.
C3_Original ==
    \A i, j \in DOMAIN db.rows :
        i # j => db.rows[i].rating_key # db.rows[j].rating_key


\* the one triple delete_episode has to be called with for the last request
ArgsOfRequest == <<req.grandparentTitle, req.parentIndex, req.index>>

\* series_settings of c has an entry under exactly the key s
HasKey(c, s) ==
    \E i \in DOMAIN c.series_settings : c.series_settings[i].key = s

\* the store holds the event of the last request: its row was appended, or a
\* row with its rating_key was there already and nothing changed
EventPersisted ==
    IF req.ratingKey # None
       /\ \E i \in DOMAIN rows0 : rows0[i].rating_key = req.ratingKey
      THEN db.rows = rows0
      ELSE db.rows = Append(rows0, RowOfRequest)

\* C4 as stated: with global grace_days = 0 and no override for the series,
\* every qualifying event causes exactly one delete_episode invocation, with
\* that event's (series, season, episode).
C4_Original ==
    ( /\ Answered
      /\ IsScrobbleOfShow
      /\ \A c \in seen : c.grace_days = 0 /\ ~HasKey(c, req.grandparentTitle) )
    => invocations = <<ArgsOfRequest>>

\* C4 amended: the same for every qualifying event whose fields sqlite3 can
\* bind, on a store whose watched table exists.
C4_DeleteNow ==
    ( /\ Answered
      /\ IsScrobbleOfShow
      /\ StoreAccepts
      /\ \A c \in seen : c.grace_days = 0 /\ ~HasKey(c, req.grandparentTitle) )
    => invocations = <<ArgsOfRequest>>

\* an event whose rating_key was stored already still got its deletion
C4_Witness ==
    /\ Answered
    /\ IsScrobbleOfShow
    /\ \A c \in seen : c.grace_days = 0 /\ ~HasKey(c, req.grandparentTitle)
    /\ \E i \in DOMAIN rows0 : rows0[i].rating_key = req.ratingKey
    /\ db.rows = rows0
    /\ invocations = <<ArgsOfRequest>>

\* the last request ran under configs without grace_days = 0 and without an
\* override for its series
NoDeleteConfig ==
    /\ pc # "idle" \/ handled > 0
    /\ IsScrobbleOfShow
    /\ \A c \in seen : c.grace_days # 0 /\ ~HasKey(c, req.grandparentTitle)

\* C5 as stated: with global grace_days > 0 or absent and no override for
\* the series, no request invokes delete_episode or issues a remote call, and
\* the event is persisted.
C5_Original ==
    NoDeleteConfig =>
        /\ invocations = <<>>
        /\ calls = <<>>
        /\ Answered => EventPersisted

\* C5 amended: the same, the event being persisted when sqlite3 can bind its
\* fields and the watched table exists.
C5_NoDelete ==
    NoDeleteConfig =>
        /\ invocations = <<>>
        /\ calls = <<>>
        /\ (Answered /\ StoreAccepts) => EventPersisted

\* under the never-loaded empty config a new event was stored and answered
\* without any deletion
C5_Witness ==
    /\ NoDeleteConfig
    /\ Answered
    /\ seen = {EmptyConfig}
    /\ db.rows = Append(rows0, RowOfRequest)
    /\ invocations = <<>>
    /\ calls = <<>>

\* the entries of c's series_settings under exactly key s / under s up to case
ExactIdx(c, s)   == {i \in DOMAIN c.series_settings : c.series_settings[i].key = s}
AnyCaseIdx(c, s) ==
    {i \in DOMAIN c.series_settings :
        s # None /\ Lower(c.series_settings[i].key) = Lower(s)}
MinOf(S) == CHOOSE i \in S : \A j \in S : i <= j

\* global grace_days with its default
GlobalGraceDays(c) == IF c.grace_days = Absent THEN 2 ELSE c.grace_days

\* the last request decided under the single snapshot c, and its INSERT went
\* through
DecidedUnder(c) ==
    /\ Answered
    /\ IsScrobbleOfShow
    /\ StoreAccepts
    /\ seen = {c}

PolicyLogs == {e \in Range(log) : e[2] = "Config"}

\* the last request carried a JSON object that one of the two filters turns
\* away
IsIgnored ==
    /\ req.raw = "object"
    /\ \/ req.event # "media.scrobble"
       \/ req.md # "dict"
       \/ req.librarySectionType # "show"

\* C7: a request whose event is not media.scrobble or whose Metadata is
\* missing or not of a show leaves the watched store as it was, evaluates no
\* policy and issues no remote call.
C7_IgnoredUntouched ==
    (Answered /\ IsIgnored) =>
        /\ db.rows = rows0
        /\ PolicyLogs = {}
        /\ override = NoOverride
        /\ grace_days = Absent
        /\ invocations = <<>>
        /\ calls = <<>>

\* a scrobble of a movie was answered and left no row behind
C7_Witness ==
    /\ Answered
    /\ req.raw = "object"
    /\ req.event = "media.scrobble"
    /\ req.md = "dict"
    /\ req.librarySectionType = "movie"
    /\ db.table
    /\ db.rows = rows0
    /\ calls = <<>>
    /\ response = <<200, "">>

\* C8: a request with an empty, absent or unparseable payload, in the
\* multipart or the raw-JSON form, a JSON value that is not an object
\* included, is answered (200, empty body), writes nothing to the watched
\* store and issues no remote call.
C8_BadPayload ==
    (Answered /\ req.raw # "object") =>
        /\ response = <<200, "">>
        /\ db.rows = rows0
        /\ invocations = <<>>
        /\ calls = <<>>

\* a multipart request without payload field was answered 200 with the
\* warning, on a store that exists
C8_Witness ==
    /\ Answered
    /\ req.raw = "absent"
    /\ req.ctype = "multipart"
    /\ log = <<<<"WARNING", "Webhook", "No payload received">>>>
    /\ db.table
    /\ db.rows = rows0
    /\ response = <<200, "">>

\* position of a remote call in the workflow
Rank(c) ==
    CASE c.method = "GET" /\ c.resource = "series"  -> 1
      [] c.method = "GET" /\ c.resource = "episode" -> 2
      [] c.method = "DELETE"                        -> 3
      [] OTHER                                      -> 4

\* no title of the fetched series list equals the requested one up to case
NoSeriesMatch ==
    \A i \in DOMAIN sonarr.series_data :
        \/ sonarr.series_data[i].title = None
        \/ req.grandparentTitle = None
        \/ Lower(sonarr.series_data[i].title) # Lower(req.grandparentTitle)

\* no entry of the fetched episode list has the requested numbers
NoEpisodeMatch ==
    \A i \in DOMAIN sonarr.episode_data :
        \/ sonarr.episode_data[i].seasonNumber # req.parentIndex
        \/ sonarr.episode_data[i].episodeNumber # req.index
        \/ req.parentIndex = Absent
        \/ req.index = Absent

\* C9: the remote calls of one delete_episode invocation come in the order
\* GET series, GET episodes, DELETE episode file, PUT episode; without a
\* series match nothing follows GET series, without an episode match
\* nothing follows GET episodes.
C9_CallOrder ==
    /\ Len(invocations) <= 1
    /\ invocations = <<>> => calls = <<>>
    /\ \A i, j \in DOMAIN calls : i < j => Rank(calls[i]) < Rank(calls[j])
    /\ calls # <<>> => Rank(calls[1]) = 1
    /\ Len(calls) >= 2 => Rank(calls[2]) = 2
    /\ NoSeriesMatch => Len(calls) <= 1
    /\ NoEpisodeMatch => Len(calls) <= 2

\* a series list without the title was fetched and the workflow stopped
\* after its one call, with the warning
C9_Witness ==
    /\ Answered
    /\ sonarr.series_data # <<>>
    /\ NoSeriesMatch
    /\ Len(calls) = 1
    /\ calls[1].status = "ok"
    /\ log[Len(log)] = <<"WARNING", "Sonarr", "Series not found">>

\* C10 as stated: a remote call that fails (network error or non-2xx) is the
\* last call of its invocation, and the workflow ends there with the error
\* logged.
C10_Original ==
    \A i \in DOMAIN calls :
        calls[i].status # "ok" =>
            /\ i = Len(calls)
            /\ Answered => log[Len(log)] = <<"ERROR", "Sonarr", calls[i].status>>

\* positions of the handler inside delete_episode
InDeleteEpisode ==
    pc \in {"delete_episode", "get_series", "get_episodes", "delete_file",
            "unmonitor"}

\* C11: no step of delete_episode lets an exception reach webhook (no
\* webhook error is logged, the request is answered 200), and none changes
\* the watched store or the active config.
C11_Contained ==
    [][(InDeleteEpisode /\ pc' # pc) =>
          /\ db' = db
          /\ CONFIG' = CONFIG
          /\ WebhookErrors' = {}
          /\ pc' = "idle" => response' = <<200, "">>]_vars

\* delete_episode met malformed remote data after a call, logged the error
\* itself and returned; the store holds what the insert left
C11_Witness ==
    /\ Answered
    /\ invocations # <<>>
    /\ calls # <<>>
    /\ <<"ERROR", "Sonarr", "KeyError">> \in Range(log)
    /\ WebhookErrors = {}
    /\ EventPersisted

\* the step is a call of load_config, by __main__ or by the watcher
LoadStep ==
    \/ mainpc = "load_config" /\ mainpc' # mainpc
    \/ wpc = "load_config" /\ wpc' # wpc

\* C12: a call of load_config returns to its caller (__main__ goes on to
\* start the watcher, the watcher records the mtime and polls again); when
\* the file is missing or invalid the active config is unchanged, when it
\* is a valid document the active config is that document.
C12_LoadConfig ==
    [][LoadStep =>
          /\ file.content.kind = "doc" => CONFIG' = file.content
          /\ file.content.kind # "doc" => CONFIG' = CONFIG
          /\ mainpc = "load_config" => mainpc' = "start_config_watcher"
          /\ wpc = "load_config" => wpc' = "getmtime" /\ last_mtime' = w_mtime
      ]_vars

\* the watcher's reload failed on an invalid document and the snapshot
\* loaded before is still active
C12_Witness ==
    /\ file.content = InvalidFile
    /\ wpc = "getmtime"
    /\ last_mtime = file.mtime
    /\ CONFIG \in SmallDocs
    /\ \E f \in past : f.content = CONFIG

\* config.json has a modification time it never had before
FreshMtime == \A f \in past : f.mtime # file.mtime

\* C13 as stated: whenever config.json ends up holding a valid document
\* (every modification changes content and modification time), the active
\* config eventually equals that document and stays so.
C13_Original ==
    \A d \in SmallDocs :
        <>[](file.content = d) => <>[](CONFIG = d)

\* C13 amended: the same, when the final modification time of config.json
\* is one the file never had before.
C13_Reloaded ==
    \A d \in SmallDocs :
        <>[](file.content = d /\ FreshMtime) => <>[](CONFIG = d)

\* config.json held an invalid document, was then replaced by a valid one
\* with a new modification time, and the watcher has loaded it
C13_Witness ==
    /\ writes = 2
    /\ \E f \in past : f.content = InvalidFile /\ f.mtime # 0
    /\ file.content \in SmallDocs
    /\ FreshMtime
    /\ CONFIG = file.content
    /\ last_mtime = file.mtime
    /\ wpc = "getmtime"

\* the complete snapshots: the empty initial config and the valid documents
\* config.json has held
Complete ==
    {EmptyConfig} \cup
        {f.content : f \in {g \in past \cup {file} : g.content.kind = "doc"}}

\* C14: at every moment, whatever the interleaving of reloads and request
\* steps, the active config is a complete snapshot, so are all the
\* snapshots a request in flight could read, and the override the handler
\* read is the one of a complete snapshot active during the request.
C14_Snapshots ==
    /\ CONFIG \in Complete
    /\ seen \subseteq Complete
    /\ override # NoOverride =>
          \E c \in seen :
              GetOverride(c.series_settings, req.grandparentTitle) = override

\* a reload replaced the active config while a request was between its two
\* reads of it
C14_Witness ==
    /\ pc = "grace"
    /\ Cardinality(seen) = 2
    /\ seen \subseteq SmallDocs
    /\ CONFIG = file.content
    /\ writes = 1

\* every stored row is still there, unchanged, after the step
RowsKept ==
    \A i \in DOMAIN db.rows :
        i \in DOMAIN db.rows' /\ db.rows'[i] = db.rows[i]

\* C15 as stated: no step changes or removes a stored row, and the row
\* stored under a present rating_key is the one of the first qualifying
\* event that carried this rating_key.
C15_Original ==
    /\ [][RowsKept]_vars
    /\ [](\A i \in DOMAIN db.rows :
            db.rows[i].rating_key # None =>
                db.rows[i] = firsts[db.rows[i].rating_key].any)

\* C15 amended: no step changes or removes a stored row, and the row stored
\* under a present rating_key is the one of the first qualifying event that
\* carried this rating_key with fields sqlite3 can bind.
C15_AppendOnly ==
    /\ [][RowsKept]_vars
    /\ [](\A i \in DOMAIN db.rows :
            db.rows[i].rating_key # None =>
                db.rows[i] = firsts[db.rows[i].rating_key].bound)

\* a second event with the rating_key of a stored row and other fields has
\* been answered; the row of the first one is still the one stored
C15_Witness ==
    /\ Answered
    /\ IsScrobbleOfShow
    /\ req.ratingKey = "abc"
    /\ req.grandparentTitle # List
    /\ processed["abc"] = 2
    /\ rows0 # <<>>
    /\ db.rows = rows0
    /\ \E i \in RowsWithKey("abc") :
          db.rows[i] # RowOfRequest /\ db.rows[i] = firsts["abc"].bound

\* C16 as stated: when the snapshot a request decided under has an entry for
\* the series of the event (and the event was stored), delete_episode is
\* invoked exactly when that entry's grace_days is 0; an entry without
\* grace_days, the empty entry included, never leads to a deletion.
C16_Original ==
    \A c \in seen :
        (DecidedUnder(c) /\ ExactIdx(c, req.grandparentTitle) # {}) =>
            LET e == c.series_settings[MinOf(ExactIdx(c, req.grandparentTitle))]
            IN  invocations # <<>> <=> e.grace_days = 0

\* delete_episode found the episode of the last request
Matched == sonarr.match # NoEpisode

Puts    == {i \in DOMAIN calls : calls[i].method = "PUT"}
Deletes == {i \in DOMAIN calls : calls[i].method = "DELETE"}

\* nothing raised between the match and the PUT: the DELETE, if any, met no
\* network error, and the matched episode has the keys the two URLs need
NoRaiseAfterMatch ==
    /\ sonarr.match.hasFile => sonarr.match.episodeFileId # Absent
    /\ \A i \in Deletes : calls[i].status # "network_error"
    /\ sonarr.match.id # Absent

TitleMatches ==
    {i \in DOMAIN sonarr.series_data :
        /\ sonarr.series_data[i].title # None
        /\ req.grandparentTitle # None
        /\ Lower(sonarr.series_data[i].title) = Lower(req.grandparentTitle)}

\* the episodes of the answer with the requested season and episode numbers
NumberMatches ==
    {i \in DOMAIN sonarr.episode_data :
        /\ sonarr.episode_data[i].seasonNumber # Absent
        /\ sonarr.episode_data[i].seasonNumber = req.parentIndex
        /\ sonarr.episode_data[i].episodeNumber # Absent
        /\ sonarr.episode_data[i].episodeNumber = req.index}

\* C18: an invocation issues at most one DELETE; a DELETE is for the
\* episode-file id of the first episode with the requested numbers among
\* the episodes fetched for the first series with the requested title (up
\* to case), and that episode has a file; when the matched episode has no
\* file the invocation issues no DELETE, logs so and goes on to the
\* unmonitor step without an error.
C18_DeleteTarget ==
    /\ \A i \in Deletes :
          /\ Deletes = {i}
          /\ TitleMatches # {}
          /\ NumberMatches # {}
          /\ LET s == sonarr.series_data[MinOf(TitleMatches)]
                 e == sonarr.episode_data[MinOf(NumberMatches)]
             IN  /\ \E j \in 1..(i - 1) :
                       /\ calls[j].method = "GET"
                       /\ calls[j].resource = "episode"
                       /\ calls[j].id = s.id
                 /\ e.hasFile
                 /\ calls[i].resource = "episodefile"
                 /\ calls[i].id = e.episodeFileId
    /\ (Matched /\ ~sonarr.match.hasFile /\ pc \in {"unmonitor", "idle"}) =>
          /\ Deletes = {}
          /\ <<"INFO", "Sonarr", "No file to delete">> \in Range(log)
          /\ pc = "unmonitor" => SonarrErrors = {}

\* among two episodes with the requested numbers the first one, not the
\* second, had its file deleted
C18_Witness ==
    /\ Answered
    /\ Cardinality(NumberMatches) = 2
    /\ \E i \in Deletes :
          /\ calls[i].id = sonarr.episode_data[1].episodeFileId
          /\ calls[i].id # sonarr.episode_data[2].episodeFileId
          /\ calls[i].status = "ok"
    /\ sonarr.episode_data[2].hasFile

\* C19: once delete_episode has been invoked for a request, the store holds
\* the event of that request (a row with its rating_key when it has one);
\* for a qualifying request whose INSERT raises (no watched table, or
\* fields sqlite3 cannot bind) nothing is stored, delete_episode is never
\* invoked and no remote call is issued.
C19_PersistFirst ==
    /\ invocations # <<>> =>
          /\ EventPersisted
          /\ req.ratingKey # None => RowsWithKey(req.ratingKey) # {}
    /\ (IsScrobbleOfShow /\ ~StoreAccepts) =>
          /\ invocations = <<>>
          /\ calls = <<>>
          /\ db.rows = rows0
          /\ Answered => InsertRaised

\* the deletion workflow of a request has just started, before any remote
\* call, and the row of the request is in the store
C19_Witness ==
    /\ pc = "delete_episode"
    /\ req.ratingKey = "abc"
    /\ invocations = <<ArgsOfRequest>>
    /\ calls = <<>>
    /\ db.rows = Append(rows0, RowOfRequest)

\* the policy decision on the single snapshot c for the last request
DeletesUnder(c) ==
    EffectiveGraceDays(GetOverride(c.series_settings, req.grandparentTitle), c) = 0

\* C20 as stated: the decision of an answered qualifying request whose
\* event was stored is the policy decision on one of the snapshots that
\* were active during the request; in particular delete_episode is invoked
\* only if one of them decides to delete.
C20_Original ==
    (Answered /\ IsScrobbleOfShow /\ StoreAccepts) =>
        /\ \E c \in seen : invocations # <<>> <=> DeletesUnder(c)
        /\ invocations # <<>> => \E c \in seen : DeletesUnder(c)
====
